---------------------------- MODULE Spec2Model ----------------------------
(***************************************************************************)
(* A model of the SnakeZ simulation engine (crate game_backend): the       *)
(* Vector2i/Direction value types, the Snake state machine, the Player     *)
(* record, and Game with its two-phase step and its game_loop.             *)
(*                                                                         *)
(* Conventions.  Rust vectors are TLA+ sequences; a Rust index i is the    *)
(* TLA+ index i + 1, and every index that appears as a value (PlayerIndex, *)
(* the orders of visit) keeps its Rust numbering 0..n-1.  An Option<T> is  *)
(* a sequence of length 0 (None) or 1 (Some).                              *)
(***************************************************************************)
EXTENDS Integers, Sequences, FiniteSets, TLC

(***************************************************************************)
(* Program constants.                                                      *)
(***************************************************************************)
INITIAL_LENGTH == 2
UPDATE_INTERVAL == 500
MAX_SPAWN_SLOTS == 4

(***************************************************************************)
(* Bounds of the model.                                                    *)
(***************************************************************************)
FieldW == 5
FieldH == 5
MaxPlayers == 3
MaxSteps == 3
MaxIntents == 4
MaxQueue == 1
MaxPizzas == 2

(***************************************************************************)
(* base.rs: Vector2i and Direction.                                        *)
(***************************************************************************)
Direction == {"PlusX", "MinusX", "PlusY", "MinusY"}

Vector2i_new(x, y) == [x |-> x, y |-> y]

unit_x == Vector2i_new(1, 0)

unit_y == Vector2i_new(0, 1)

vec_add(a, b) == [x |-> a.x + b.x, y |-> a.y + b.y]

vec_sub(a, b) == [x |-> a.x - b.x, y |-> a.y - b.y]

vec_neg(a) == [x |-> 0 - a.x, y |-> 0 - a.y]

vec_mul(a, k) == [x |-> a.x * k, y |-> a.y * k]

from_direction(direction) ==
    CASE direction = "PlusX" -> unit_x
      [] direction = "MinusX" -> vec_neg(unit_x)
      [] direction = "PlusY" -> unit_y
      [] direction = "MinusY" -> vec_neg(unit_y)

abs(n) == IF n < 0 THEN 0 - n ELSE n

(***************************************************************************)
(* Option<T>.                                                              *)
(***************************************************************************)
None == << >>

Some(v) == << v >>

is_some(o) == Len(o) = 1

unwrap(o) == o[1]

(***************************************************************************)
(* snake.rs: Snake.                                                        *)
(***************************************************************************)
look_direction(snake) == snake.look_direction

body(snake) == snake.body

set_body(snake, new_body) == [snake EXCEPT !.body = new_body]

backward_direction_head_minus_neck(snake) == vec_sub(snake.body[1], snake.body[2])

backward_direction(snake) == vec_sub(snake.body[2], snake.body[1])

backward_direction_asserts(snake) ==
    LET res == backward_direction(snake)
    IN  abs(res.x) + abs(res.y) = 1

try_set_look_direction_always(snake, direction) ==
    [snake EXCEPT !.look_direction = direction]

try_set_look_direction(snake, direction) ==
    LET backward_dir == backward_direction(snake)
        new_dir == from_direction(direction)
    IN  IF backward_dir # new_dir
        THEN [snake EXCEPT !.look_direction = direction]
        ELSE snake

try_set_look_direction_result_changed(snake, direction) ==
    snake.look_direction # try_set_look_direction(snake, direction).look_direction

try_set_look_direction_result(snake, direction) ==
    direction = try_set_look_direction(snake, direction).look_direction

Snake_new_ahead(position, direction, length) ==
    LET dir_vec == from_direction(direction)
    IN  [look_direction |-> direction,
         body |-> [i \in 1..length |-> vec_add(position, vec_mul(dir_vec, i - 1))],
         grow_counter |-> 0]

Snake_new(position, direction, length) ==
    LET dir_vec == from_direction(direction)
    IN  [look_direction |-> direction,
         body |-> [i \in 1..length |-> vec_sub(position, vec_mul(dir_vec, i - 1))],
         grow_counter |-> 0]

eat_at_once(snake, food) ==
    [snake EXCEPT !.body = @ \o [i \in 1..food |-> snake.body[Len(snake.body)]]]

eat(snake, food) == [snake EXCEPT !.grow_counter = @ + food]

move_forward_leap(snake) ==
    LET move_dir == from_direction(snake.look_direction)
        new_head == vec_add(snake.body[1], vec_mul(move_dir, 2))
        inserted == << new_head >> \o snake.body
    IN  IF snake.grow_counter > 0
        THEN [snake EXCEPT !.body = inserted, !.grow_counter = @ - 1]
        ELSE [snake EXCEPT !.body = SubSeq(inserted, 1, Len(inserted) - 1)]

move_forward_keeps_counter(snake) ==
    LET move_dir == from_direction(snake.look_direction)
        new_head == vec_add(snake.body[1], move_dir)
        inserted == << new_head >> \o snake.body
    IN  IF snake.grow_counter > 0
        THEN [snake EXCEPT !.body = inserted]
        ELSE [snake EXCEPT !.body = SubSeq(inserted, 1, Len(inserted) - 1)]

move_forward(snake) ==
    LET move_dir == from_direction(snake.look_direction)
        new_head == vec_add(snake.body[1], move_dir)
        inserted == << new_head >> \o snake.body
    IN  IF snake.grow_counter > 0
        THEN [snake EXCEPT !.body = inserted, !.grow_counter = @ - 1]
        ELSE [snake EXCEPT !.body = SubSeq(inserted, 1, Len(inserted) - 1)]

(***************************************************************************)
(* game.rs / player.rs: Player.                                            *)
(***************************************************************************)
alive(player) == is_some(player.snake)

kill(player) == [player EXCEPT !.snake = None]

summary(player) == [score |-> player.score, alive |-> alive(player)]

RECURSIVE drain_inputs(_, _)
drain_inputs(snake_opt, queue) ==
    IF queue = << >>
    THEN snake_opt
    ELSE drain_inputs(
            IF is_some(snake_opt)
            THEN Some(try_set_look_direction(unwrap(snake_opt), Head(queue)))
            ELSE snake_opt,
            Tail(queue))

read_inputs_respawn(player) ==
    IF is_some(player.control)
    THEN [player EXCEPT
            !.snake = IF is_some(@) \/ unwrap(player.control) = << >>
                      THEN drain_inputs(@, unwrap(player.control))
                      ELSE Some(Snake_new(Vector2i_new(0, 0), "PlusX", INITIAL_LENGTH)),
            !.control = Some(<< >>)]
    ELSE player

read_inputs_single(player) ==
    IF is_some(player.control) /\ unwrap(player.control) # << >>
    THEN [player EXCEPT
            !.snake = drain_inputs(@, << Head(unwrap(player.control)) >>),
            !.control = Some(Tail(unwrap(player.control)))]
    ELSE player

read_inputs(player) ==
    IF is_some(player.control)
    THEN [player EXCEPT !.snake = drain_inputs(player.snake, unwrap(player.control)),
                        !.control = Some(<< >>)]
    ELSE player

(***************************************************************************)
(* grid.rs: GridCell, and Grid as a function on the cells of the field.    *)
(***************************************************************************)
Empty == << "Empty" >>

Pizza == << "Pizza" >>

SnakeCell(player_index, body_part) == << "Snake", player_index, body_part >>

Grid_from_elem(w, h, cell) == [c \in (0..(w - 1)) \X (0..(h - 1)) |-> cell]

(***************************************************************************)
(* game.rs: Game.                                                          *)
(***************************************************************************)
Game_new(field_size) ==
    [players |-> << >>,
     field_size |-> field_size,
     pizzas |-> << >>,
     grid |-> Grid_from_elem(0, 0, Empty)]

NumPlayers(g) == Len(g.players)

PlayerAt(g, player_index) == g.players[player_index + 1]

calc_spawn_pos_round_up(index, length, field_size) ==
    LET center == Vector2i_new((field_size.x + 1) \div 2, (field_size.y + 1) \div 2)
    IN  CASE index = 0 -> << [center EXCEPT !.x = @ - length], "MinusX" >>
          [] index = 1 -> << [center EXCEPT !.y = @ - length], "MinusY" >>
          [] index = 2 -> << [center EXCEPT !.x = @ + length], "PlusX" >>
          [] index = 3 -> << [center EXCEPT !.y = @ + length], "PlusY" >>

calc_spawn_pos(index, length, field_size) ==
    LET center == Vector2i_new(field_size.x \div 2, field_size.y \div 2)
    IN  CASE index = 0 -> << [center EXCEPT !.x = @ - length], "MinusX" >>
          [] index = 1 -> << [center EXCEPT !.y = @ - length], "MinusY" >>
          [] index = 2 -> << [center EXCEPT !.x = @ + length], "PlusX" >>
          [] index = 3 -> << [center EXCEPT !.y = @ + length], "PlusY" >>

calc_spawn_pos_panics(index) == ~(index < MAX_SPAWN_SLOTS)

register_player_at_front(g, control) ==
    LET new_player_index == NumPlayers(g)
        spawn == calc_spawn_pos(new_player_index, INITIAL_LENGTH, g.field_size)
        player == [snake |-> Some(Snake_new(spawn[1], spawn[2], INITIAL_LENGTH)),
                   score |-> 0,
                   control |-> control]
    IN  [g EXCEPT !.players = << player >> \o @]

register_player(g, control) ==
    LET new_player_index == NumPlayers(g)
        spawn == calc_spawn_pos(new_player_index, INITIAL_LENGTH, g.field_size)
        player == [snake |-> Some(Snake_new(spawn[1], spawn[2], INITIAL_LENGTH)),
                   score |-> 0,
                   control |-> control]
    IN  [g EXCEPT !.players = Append(@, player)]

RECURSIVE position(_, _, _)
position(seq, v, from) ==
    IF from > Len(seq) THEN None
    ELSE IF seq[from] = v THEN Some(from - 1)
    ELSE position(seq, v, from + 1)

remove(seq, index) ==
    SubSeq(seq, 1, index) \o SubSeq(seq, index + 2, Len(seq))

move_player_no_growth(g, player_index) ==
    LET player == PlayerAt(g, player_index)
        snake == move_forward(unwrap(player.snake))
        head_pos == snake.body[1]
        pizza_index == position(g.pizzas, head_pos, 1)
    IN  IF is_some(pizza_index)
        THEN [g EXCEPT !.players[player_index + 1].snake = Some(snake),
                       !.players[player_index + 1].score = @ + 1,
                       !.pizzas = remove(@, unwrap(pizza_index))]
        ELSE [g EXCEPT !.players[player_index + 1].snake = Some(snake)]

move_player_keeps_pizza(g, player_index) ==
    LET player == PlayerAt(g, player_index)
        snake == move_forward(unwrap(player.snake))
        head_pos == snake.body[1]
        pizza_index == position(g.pizzas, head_pos, 1)
    IN  IF is_some(pizza_index)
        THEN [g EXCEPT !.players[player_index + 1].snake = Some(eat(snake, 1)),
                       !.players[player_index + 1].score = @ + 1]
        ELSE [g EXCEPT !.players[player_index + 1].snake = Some(snake)]

move_player(g, player_index) ==
    LET player == PlayerAt(g, player_index)
        snake == move_forward(unwrap(player.snake))
        head_pos == snake.body[1]
        pizza_index == position(g.pizzas, head_pos, 1)
    IN  IF is_some(pizza_index)
        THEN [g EXCEPT !.players[player_index + 1].snake = Some(eat(snake, 1)),
                       !.players[player_index + 1].score = @ + 1,
                       !.pizzas = remove(@, unwrap(pizza_index))]
        ELSE [g EXCEPT !.players[player_index + 1].snake = Some(snake)]

candidate_head(snake) == vec_add(snake.body[1], from_direction(look_direction(snake)))

outside_field_unsigned(g, pos) ==
    pos.x >= g.field_size.x \/ pos.y >= g.field_size.y

outside_field_off_by_one(g, pos) ==
    pos.x < 0 \/ pos.x > g.field_size.x \/ pos.y < 0 \/ pos.y > g.field_size.y

outside_field(g, pos) ==
    pos.x < 0 \/ pos.x >= g.field_size.x \/ pos.y < 0 \/ pos.y >= g.field_size.y

hits_body_short_slice(g, new_head) ==
    \E k \in 1..Len(g.players) :
        /\ alive(g.players[k])
        /\ LET any_snake == unwrap(g.players[k].snake)
           IN  \E b \in 1..(Len(any_snake.body) - 2) : any_snake.body[b] = new_head

hits_body_with_tail(g, new_head) ==
    \E k \in 1..Len(g.players) :
        /\ alive(g.players[k])
        /\ LET any_snake == unwrap(g.players[k].snake)
           IN  \E b \in 1..Len(any_snake.body) : any_snake.body[b] = new_head

hits_body(g, new_head) ==
    \E k \in 1..Len(g.players) :
        /\ alive(g.players[k])
        /\ LET any_snake == unwrap(g.players[k].snake)
           IN  \E b \in 1..(Len(any_snake.body) - 1) : any_snake.body[b] = new_head

competes_without_advance(g, player_index, new_head) ==
    \E k \in 1..Len(g.players) :
        /\ k - 1 # player_index
        /\ alive(g.players[k])
        /\ unwrap(g.players[k].snake).body[1] = new_head

competes_with_earlier(g, player_index, new_head) ==
    \E k \in 1..Len(g.players) :
        /\ k - 1 < player_index
        /\ alive(g.players[k])
        /\ candidate_head(unwrap(g.players[k].snake)) = new_head

competes(g, player_index, new_head) ==
    \E k \in 1..Len(g.players) :
        /\ k - 1 # player_index
        /\ alive(g.players[k])
        /\ candidate_head(unwrap(g.players[k].snake)) = new_head

predict_next_action_wall_holds(g, player_index) ==
    IF ~alive(PlayerAt(g, player_index)) THEN "Hold"
    ELSE LET new_head == candidate_head(unwrap(PlayerAt(g, player_index).snake))
         IN  IF outside_field(g, new_head) THEN "Hold"
             ELSE IF hits_body(g, new_head) THEN "Die"
             ELSE IF competes(g, player_index, new_head) THEN "Hold"
             ELSE "Move"

predict_next_action_dead_dies(g, player_index) ==
    IF ~alive(PlayerAt(g, player_index)) THEN "Die"
    ELSE LET new_head == candidate_head(unwrap(PlayerAt(g, player_index).snake))
         IN  IF outside_field(g, new_head) THEN "Die"
             ELSE IF hits_body(g, new_head) THEN "Die"
             ELSE IF competes(g, player_index, new_head) THEN "Hold"
             ELSE "Move"

predict_next_action(g, player_index) ==
    IF ~alive(PlayerAt(g, player_index)) THEN "Hold"
    ELSE LET new_head == candidate_head(unwrap(PlayerAt(g, player_index).snake))
         IN  IF outside_field(g, new_head) THEN "Die"
             ELSE IF hits_body(g, new_head) THEN "Die"
             ELSE IF competes(g, player_index, new_head) THEN "Hold"
             ELSE "Move"

(***************************************************************************)
(* Game::step.  The predict loop and the apply loop visit the players in   *)
(* an order; the code visits them in roster order 0..n-1 in both.          *)
(***************************************************************************)
RosterOrder(g) == [k \in 1..NumPlayers(g) |-> k - 1]

RECURSIVE predict_loop(_, _, _)
predict_loop(g, order, actions) ==
    IF order = << >>
    THEN actions
    ELSE predict_loop(g, Tail(order),
            [actions EXCEPT ![Head(order) + 1] = predict_next_action(g, Head(order))])

predict_actions(g, order) ==
    predict_loop(g, order, [k \in 1..NumPlayers(g) |-> "Hold"])

apply_action_die_resets(g, action, player_index) ==
    CASE action = "Hold" -> g
      [] action = "Move" -> move_player(g, player_index)
      [] action = "Die" -> [g EXCEPT !.players[player_index + 1] =
                                        [kill(@) EXCEPT !.score = 0]]

apply_action(g, action, player_index) ==
    CASE action = "Hold" -> g
      [] action = "Move" -> move_player(g, player_index)
      [] action = "Die" -> [g EXCEPT !.players[player_index + 1] = kill(@)]

RECURSIVE apply_loop(_, _, _)
apply_loop(g, actions, order) ==
    IF order = << >>
    THEN g
    ELSE apply_loop(apply_action(g, actions[Head(order) + 1], Head(order)),
                    actions, Tail(order))

RECURSIVE step_interleaved(_, _)
step_interleaved(g, order) ==
    IF order = << >>
    THEN g
    ELSE step_interleaved(
            apply_action(g, predict_next_action(g, Head(order)), Head(order)),
            Tail(order))

step_visiting_interleaved(g, predict_order, apply_order) ==
    step_interleaved(g, predict_order)

step_visiting(g, predict_order, apply_order) ==
    apply_loop(g, predict_actions(g, predict_order), apply_order)

step(g) == step_visiting(g, RosterOrder(g), RosterOrder(g))

(***************************************************************************)
(* Game::generate_grid: the cells are stamped in the order of the code,    *)
(* food first, then every alive snake in roster order, head first.         *)
(***************************************************************************)
body_part(part_i, snake_len) ==
    IF part_i = 0 THEN "Head"
    ELSE IF part_i = snake_len - 1 THEN "Tail"
    ELSE "Body"

pizza_stamps(g) ==
    [k \in 1..Len(g.pizzas) |-> [pos |-> g.pizzas[k], cell |-> Pizza]]

snake_stamps(player_i, snake) ==
    [b \in 1..Len(snake.body) |->
        [pos |-> snake.body[b],
         cell |-> SnakeCell(player_i, body_part(b - 1, Len(snake.body)))]]

RECURSIVE players_stamps(_, _)
players_stamps(g, from) ==
    IF from > Len(g.players) THEN << >>
    ELSE (IF alive(g.players[from])
          THEN snake_stamps(from - 1, unwrap(g.players[from].snake))
          ELSE << >>) \o players_stamps(g, from + 1)

RECURSIVE stamp(_, _)
stamp(grid, stamps) ==
    IF stamps = << >> THEN grid
    ELSE stamp([grid EXCEPT ![<< Head(stamps).pos.x, Head(stamps).pos.y >>] = Head(stamps).cell],
               Tail(stamps))

generate_grid(g) ==
    stamp(Grid_from_elem(g.field_size.x, g.field_size.y, Empty),
          pizza_stamps(g) \o players_stamps(g, 1))

(***************************************************************************)
(* num_empty_cells and calc_spaw_pos_for_pizza (game.rs).  The grid is an  *)
(* ndarray::Array2 of shape (W, H); indexed_iter visits it in row-major    *)
(* order, first index outermost.  The random draw is an argument.  A       *)
(* panic (the remainder by 0, or no free cell found) is the result None.   *)
(***************************************************************************)
RECURSIVE alive_body_cells(_, _)
alive_body_cells(g, from) ==
    IF from > Len(g.players) THEN 0
    ELSE (IF alive(g.players[from])
          THEN Len(body(unwrap(g.players[from].snake)))
          ELSE 0) + alive_body_cells(g, from + 1)

num_empty_cells(g) ==
    g.field_size.x * g.field_size.y - Len(g.pizzas) - alive_body_cells(g, 1)

shape(grid) ==
    << Cardinality({ c[1] : c \in DOMAIN grid }), Cardinality({ c[2] : c \in DOMAIN grid }) >>

indexed_iter_y_major(grid, at) == << at % shape(grid)[1], at \div shape(grid)[1] >>

indexed_iter(grid, at) == << at \div shape(grid)[2], at % shape(grid)[2] >>

RECURSIVE find_free_cell(_, _, _)
find_free_cell(grid, at, free_cell_counter) ==
    IF at >= shape(grid)[1] * shape(grid)[2]
    THEN None
    ELSE LET c == indexed_iter(grid, at)
         IN  IF grid[c] = Empty
             THEN IF free_cell_counter = 0
                  THEN Some(Vector2i_new(c[1], c[2]))
                  ELSE find_free_cell(grid, at + 1, free_cell_counter - 1)
             ELSE find_free_cell(grid, at + 1, free_cell_counter)

calc_spaw_pos_for_pizza(grid, estimated_free_cells, random) ==
    IF estimated_free_cells = 0
    THEN None
    ELSE find_free_cell(grid, 0, random % estimated_free_cells)

(***************************************************************************)
(* The global event channel (events.rs).  The sending side is called by    *)
(* main.rs (register_global_event_channel) and read by front.rs.           *)
(***************************************************************************)
players_summary(g) == [k \in 1..Len(g.players) |-> summary(g.players[k])]

UpdateEvent(g) == << "Update", g.grid, players_summary(g) >>

GameOverEvent(g) == << "GameOver", players_summary(g) >>

publish_update(channel, g) == Append(channel, UpdateEvent(g))

publish_game_over(channel, g) == Append(channel, GameOverEvent(g))

(***************************************************************************)
(* The state of the program.                                               *)
(***************************************************************************)
VARIABLES game, pc, shutdown_rx, now, timer, steps, intents_sent, events, call

vars == << game, pc, shutdown_rx, now, timer, steps, intents_sent, events, call >>

(***************************************************************************)
(* call is the last direct call of an operation of Snake, Player or Game   *)
(* made by a caller other than game_loop, with its arguments and what it   *)
(* returned; game_loop and the threads around it make no such call.        *)
(***************************************************************************)
NoCall == [fn |-> "none", args |-> << >>, result |-> << >>]

TimeQuantum == UPDATE_INTERVAL

FoodCells(field_size) ==
    LET cx == field_size.x \div 2
        cy == field_size.y \div 2
    IN  << Vector2i_new(cx - 1, cy - 1), Vector2i_new(cx - 1, cy - 2),
           Vector2i_new(cx + 1, cy + 1), Vector2i_new(cx + 1, cy + 2) >>

PizzaPools(field_size) ==
    { SubSeq(FoodCells(field_size), 1, k) : k \in 0..MaxPizzas }

Init ==
    /\ \E pool \in PizzaPools(Vector2i_new(FieldW, FieldH)) :
          game = [Game_new(Vector2i_new(FieldW, FieldH)) EXCEPT !.pizzas = pool]
    /\ pc = "setup"
    /\ shutdown_rx = 0
    /\ now = 2 * UPDATE_INTERVAL
    /\ timer = 0
    /\ steps = 0
    /\ intents_sent = 0
    /\ events = << >>
    /\ call = NoCall

(***************************************************************************)
(* main: registration, then game_loop on its own thread.                   *)
(***************************************************************************)
RegisterPlayer ==
    /\ pc = "setup"
    /\ NumPlayers(game) < MaxPlayers
    /\ ~calc_spawn_pos_panics(NumPlayers(game))
    /\ \E control \in {None, Some(<< >>)} :
          game' = register_player(game, control)
    /\ UNCHANGED << pc, shutdown_rx, now, timer, steps, intents_sent, events, call >>

StartLoop ==
    /\ pc = "setup"
    /\ game' = [game EXCEPT !.grid = generate_grid(game)]
    /\ timer' = now
    /\ pc' = "loop"
    /\ UNCHANGED << shutdown_rx, now, steps, intents_sent, events, call >>

(***************************************************************************)
(* The other threads: the front end sends direction intents and main       *)
(* sends the shutdown message; time passes.                                *)
(***************************************************************************)
SendIntentWithin(budget) ==
    /\ pc = "loop"
    /\ shutdown_rx = 0
    /\ intents_sent < budget
    /\ \E k \in 1..Len(game.players), d \in Direction :
          /\ is_some(game.players[k].control)
          /\ Len(unwrap(game.players[k].control)) < MaxQueue
          /\ game' = [game EXCEPT !.players[k].control = Some(Append(unwrap(@), d))]
    /\ intents_sent' = intents_sent + 1
    /\ UNCHANGED << pc, shutdown_rx, now, timer, steps, events, call >>

SendShutdown ==
    /\ pc = "loop"
    /\ shutdown_rx = 0
    /\ shutdown_rx' = 1
    /\ UNCHANGED << game, pc, now, timer, steps, intents_sent, events, call >>

Tick ==
    /\ pc = "loop"
    /\ now - timer <= UPDATE_INTERVAL
    /\ now' = now + TimeQuantum
    /\ UNCHANGED << game, pc, shutdown_rx, timer, steps, intents_sent, events, call >>

(***************************************************************************)
(* Game::game_loop, one action per way through one iteration of the loop.  *)
(***************************************************************************)
game_over_any_dead(g) == ~(\A k \in 1..Len(g.players) : alive(g.players[k]))

game_over(g) == ~(\E k \in 1..Len(g.players) : alive(g.players[k]))

read_all_inputs(g) ==
    [g EXCEPT !.players = [k \in 1..Len(g.players) |-> read_inputs(g.players[k])]]

elapsed == now - timer

(***************************************************************************)
(* Instant::checked_sub gives None only when the earlier instant cannot be *)
(* represented, which is far outside every clock reading the loop can      *)
(* reach: an Instant can be moved back to before the first reading.        *)
(***************************************************************************)
checked_sub(instant, duration) == Some(instant - duration)

unwrap_or(o, default) == IF is_some(o) THEN unwrap(o) ELSE default

LoopGameOver ==
    /\ pc = "loop"
    /\ game_over(game)
    /\ pc' = "returned"
    /\ events' = publish_game_over(events, game)
    /\ UNCHANGED << game, shutdown_rx, now, timer, steps, intents_sent, call >>

LoopShutdown_unconditional ==
    /\ pc = "loop"
    /\ ~game_over(game)
    /\ shutdown_rx' = IF shutdown_rx > 0 THEN shutdown_rx - 1 ELSE shutdown_rx
    /\ pc' = "returned"
    /\ UNCHANGED << game, now, timer, steps, intents_sent, events, call >>

LoopShutdown ==
    /\ pc = "loop"
    /\ ~game_over(game)
    /\ shutdown_rx > 0
    /\ shutdown_rx' = shutdown_rx - 1
    /\ pc' = "returned"
    /\ UNCHANGED << game, now, timer, steps, intents_sent, events, call >>

LoopPoll ==
    /\ pc = "loop"
    /\ ~game_over(game)
    /\ shutdown_rx = 0
    /\ ~(elapsed > UPDATE_INTERVAL)
    /\ game' = read_all_inputs(game)
    /\ UNCHANGED << pc, shutdown_rx, now, timer, steps, intents_sent, events, call >>

LoopStepWithin_unchecked(limit) ==
    /\ pc = "loop"
    /\ ~game_over(game)
    /\ elapsed > UPDATE_INTERVAL
    /\ steps < limit
    /\ timer' = unwrap_or(checked_sub(timer, UPDATE_INTERVAL), now)
    /\ LET stepped == step(read_all_inputs(game))
           shown == [stepped EXCEPT !.grid = generate_grid(stepped)]
       IN  /\ game' = shown
           /\ events' = publish_update(events, shown)
    /\ steps' = steps + 1
    /\ UNCHANGED << pc, shutdown_rx, now, intents_sent, call >>

LoopStepWithin(limit) ==
    /\ pc = "loop"
    /\ ~game_over(game)
    /\ shutdown_rx = 0
    /\ elapsed > UPDATE_INTERVAL
    /\ steps < limit
    /\ timer' = unwrap_or(checked_sub(timer, UPDATE_INTERVAL), now)
    /\ LET stepped == step(read_all_inputs(game))
           shown == [stepped EXCEPT !.grid = generate_grid(stepped)]
       IN  /\ game' = shown
           /\ events' = publish_update(events, shown)
    /\ steps' = steps + 1
    /\ UNCHANGED << pc, shutdown_rx, now, intents_sent, call >>

SendIntent == SendIntentWithin(MaxIntents)

LoopStep == LoopStepWithin(MaxSteps)

Next ==
    \/ RegisterPlayer
    \/ StartLoop
    \/ SendIntent
    \/ SendShutdown
    \/ Tick
    \/ LoopGameOver
    \/ LoopShutdown
    \/ LoopPoll
    \/ LoopStep

Spec == Init /\ [][Next]_vars

(***************************************************************************)
(* The same program with three players registered, each with an intent     *)
(* channel, no food, and a user who never quits: the loop has just been    *)
(* entered.                                                                *)
(***************************************************************************)
ContestSteps == 4
ContestIntents == 6

ThreePlayers ==
    register_player(
        register_player(
            register_player(Game_new(Vector2i_new(FieldW, FieldH)), Some(<< >>)),
            Some(<< >>)),
        Some(<< >>))

InitContest ==
    /\ game = [ThreePlayers EXCEPT !.grid = generate_grid(ThreePlayers)]
    /\ pc = "loop"
    /\ shutdown_rx = 0
    /\ now = 2 * UPDATE_INTERVAL
    /\ timer = 2 * UPDATE_INTERVAL
    /\ steps = 0
    /\ intents_sent = 0
    /\ events = << >>
    /\ call = NoCall

NextContest ==
    \/ SendIntentWithin(ContestIntents)
    \/ Tick
    \/ LoopGameOver
    \/ LoopPoll
    \/ LoopStepWithin(ContestSteps)

SpecContest == InitContest /\ [][NextContest]_vars

(***************************************************************************)
(* The operations of Snake and Player called directly, as the tests of     *)
(* snake.rs and game.rs call them: one player is built around a snake made *)
(* by Snake::new, then turned, moved, fed, killed, sent intents and read.  *)
(* steps counts the calls made after the construction.                     *)
(***************************************************************************)
MaxCalls == 3
MaxSnakeLen == 3
MaxFood == 2
MaxDrain == 2

SnakeHeads == { Vector2i_new(0, 0), Vector2i_new(FieldW \div 2, FieldH \div 2) }

Snake_new_panics(length) == ~(length >= 2)

Called(fn, args, result) == [fn |-> fn, args |-> args, result |-> result]

InitSnake ==
    /\ game = Game_new(Vector2i_new(FieldW, FieldH))
    /\ pc = "unit"
    /\ shutdown_rx = 0
    /\ now = 2 * UPDATE_INTERVAL
    /\ timer = 0
    /\ steps = 0
    /\ intents_sent = 0
    /\ events = << >>
    /\ call = NoCall

CallSnakeNew ==
    /\ pc = "unit"
    /\ NumPlayers(game) = 0
    /\ \E head_position \in SnakeHeads, direction \in Direction,
          length \in 0..MaxSnakeLen, control \in {None, Some(<< >>)} :
          IF Snake_new_panics(length)
          THEN /\ pc' = "panicked"
               /\ game' = game
               /\ call' = Called("Snake::new", << head_position, direction, length >>, None)
          ELSE LET snake == Snake_new(head_position, direction, length)
               IN  /\ pc' = pc
                   /\ game' = [game EXCEPT !.players =
                                 << [snake |-> Some(snake), score |-> 0, control |-> control] >>]
                   /\ call' = Called("Snake::new", << head_position, direction, length >>, Some(snake))
    /\ UNCHANGED << shutdown_rx, now, timer, steps, intents_sent, events >>

UnderTest ==
    /\ pc = "unit"
    /\ NumPlayers(game) = 1
    /\ steps < MaxCalls

CallTrySetLookDirection ==
    /\ UnderTest
    /\ alive(game.players[1])
    /\ \E direction \in Direction :
          LET snake == unwrap(game.players[1].snake)
              after == try_set_look_direction(snake, direction)
          IN  /\ game' = [game EXCEPT !.players[1].snake = Some(after)]
              /\ call' = Called("try_set_look_direction", << snake, direction >>,
                                << after, try_set_look_direction_result(snake, direction) >>)
    /\ steps' = steps + 1
    /\ UNCHANGED << pc, shutdown_rx, now, timer, intents_sent, events >>

CallMoveForward ==
    /\ UnderTest
    /\ alive(game.players[1])
    /\ LET snake == unwrap(game.players[1].snake)
           after == move_forward(snake)
       IN  /\ game' = [game EXCEPT !.players[1].snake = Some(after)]
           /\ call' = Called("move_forward", << snake >>, << after >>)
    /\ steps' = steps + 1
    /\ UNCHANGED << pc, shutdown_rx, now, timer, intents_sent, events >>

CallEat ==
    /\ UnderTest
    /\ alive(game.players[1])
    /\ \E food \in 1..MaxFood :
          LET snake == unwrap(game.players[1].snake)
              after == eat(snake, food)
          IN  /\ after.grow_counter <= MaxFood
              /\ game' = [game EXCEPT !.players[1].snake = Some(after)]
              /\ call' = Called("eat", << snake, food >>, << after >>)
    /\ steps' = steps + 1
    /\ UNCHANGED << pc, shutdown_rx, now, timer, intents_sent, events >>

CallKill ==
    /\ UnderTest
    /\ alive(game.players[1])
    /\ game' = [game EXCEPT !.players[1] = kill(@)]
    /\ call' = Called("kill", << game.players[1] >>, << kill(game.players[1]) >>)
    /\ steps' = steps + 1
    /\ UNCHANGED << pc, shutdown_rx, now, timer, intents_sent, events >>

(***************************************************************************)
(* set_body as the tests of game.rs call it: the body is replaced by a     *)
(* straight run of cells from a head cell, the facing stays as it was.     *)
(***************************************************************************)
TestBodies ==
    { [b \in 1..n |-> vec_add(h, vec_mul(from_direction(d), b - 1))] :
        h \in SnakeHeads, d \in Direction, n \in 2..MaxSnakeLen }

CallSetBody ==
    /\ UnderTest
    /\ alive(game.players[1])
    /\ \E new_body \in TestBodies :
          LET snake == unwrap(game.players[1].snake)
              after == set_body(snake, new_body)
          IN  /\ game' = [game EXCEPT !.players[1].snake = Some(after)]
              /\ call' = Called("set_body", << snake, new_body >>, << after >>)
    /\ steps' = steps + 1
    /\ UNCHANGED << pc, shutdown_rx, now, timer, intents_sent, events >>

SendToControl ==
    /\ UnderTest
    /\ is_some(game.players[1].control)
    /\ Len(unwrap(game.players[1].control)) < MaxDrain
    /\ \E direction \in Direction :
          /\ game' = [game EXCEPT !.players[1].control = Some(Append(unwrap(@), direction))]
          /\ call' = Called("send", << direction >>, << >>)
    /\ UNCHANGED << pc, shutdown_rx, now, timer, steps, intents_sent, events >>

CallReadInputs ==
    /\ UnderTest
    /\ game' = [game EXCEPT !.players[1] = read_inputs(@)]
    /\ call' = Called("read_inputs", << game.players[1] >>, << read_inputs(game.players[1]) >>)
    /\ steps' = steps + 1
    /\ UNCHANGED << pc, shutdown_rx, now, timer, intents_sent, events >>

NextSnake ==
    \/ CallSnakeNew
    \/ CallTrySetLookDirection
    \/ CallMoveForward
    \/ CallEat
    \/ CallKill
    \/ CallSetBody
    \/ SendToControl
    \/ CallReadInputs

SpecSnake == InitSnake /\ [][NextSnake]_vars

(***************************************************************************)
(* The setup phase alone, on fields of several sizes: calc_spawn_pos       *)
(* called directly, as tests::test_calc_spawn_pos does, and                *)
(* register_player called until it panics.                                 *)
(***************************************************************************)
FieldSizes ==
    { Vector2i_new(w, h) : w \in (FieldW - 1)..(FieldW + 1),
                           h \in (FieldH - 1)..(FieldH + 1) }

register_player_result(g) == NumPlayers(g)

InitSetup ==
    /\ \E field_size \in FieldSizes : game = Game_new(field_size)
    /\ pc = "setup"
    /\ shutdown_rx = 0
    /\ now = 2 * UPDATE_INTERVAL
    /\ timer = 0
    /\ steps = 0
    /\ intents_sent = 0
    /\ events = << >>
    /\ call = NoCall

CallCalcSpawnPos ==
    /\ pc = "setup"
    /\ \E index \in 0..(MAX_SPAWN_SLOTS + 1), length \in 1..MaxSnakeLen :
          LET args == << index, length, game.field_size >>
          IN  IF calc_spawn_pos_panics(index)
              THEN /\ pc' = "panicked"
                   /\ call' = Called("calc_spawn_pos", args, None)
              ELSE /\ pc' = pc
                   /\ call' = Called("calc_spawn_pos", args,
                                     Some(calc_spawn_pos(index, length, game.field_size)))
    /\ UNCHANGED << game, shutdown_rx, now, timer, steps, intents_sent, events >>

CallRegisterPlayer ==
    /\ pc = "setup"
    /\ \E control \in {None, Some(<< >>)} :
          IF calc_spawn_pos_panics(NumPlayers(game))
          THEN /\ pc' = "panicked"
               /\ game' = game
               /\ call' = Called("register_player", << game, control >>, None)
          ELSE /\ pc' = pc
               /\ game' = register_player(game, control)
               /\ call' = Called("register_player", << game, control >>,
                                 Some(<< register_player_result(game),
                                         register_player(game, control) >>))
    /\ UNCHANGED << shutdown_rx, now, timer, steps, intents_sent, events >>

NextSetup ==
    \/ CallCalcSpawnPos
    \/ CallRegisterPlayer

SpecSetup == InitSetup /\ [][NextSetup]_vars

(***************************************************************************)
(* Vocabulary of the claims.  Pre is the state the predict phase of the     *)
(* next step reads: the game with every intent queue drained.              *)
(***************************************************************************)
Pre == read_all_inputs(game)

Players == 0..(NumPlayers(game) - 1)

Alive(i) == alive(PlayerAt(Pre, i))

SnakeOf(i) == unwrap(PlayerAt(Pre, i).snake)

Candidate(i) == candidate_head(SnakeOf(i))

InField(pos) ==
    /\ 0 <= pos.x /\ pos.x < game.field_size.x
    /\ 0 <= pos.y /\ pos.y < game.field_size.y

TailCell(i) == SnakeOf(i).body[Len(SnakeOf(i).body)]

NonTailCells(i) == { SnakeOf(i).body[b] : b \in 1..(Len(SnakeOf(i).body) - 1) }

OnNonTail(pos) == \E k \in Players : Alive(k) /\ pos \in NonTailCells(k)

Contested(i) == \E k \in Players : k # i /\ Alive(k) /\ Candidate(k) = Candidate(i)

Perms(n) ==
    { o \in [1..n -> 0..(n - 1)] : \A a, b \in 1..n : a # b => o[a] # o[b] }

Running == pc = "loop" /\ shutdown_rx = 0

(***************************************************************************)
(* C1.  Game::step is order-independent: whatever order the predict loop   *)
(* and the apply loop visit the players in, the state after the step       *)
(* (bodies, facings, grow counters, alive flags, scores, food pool) is the *)
(* one the code computes in roster order.                                  *)
(***************************************************************************)
C1_StepOrderIndependent ==
    Running =>
        /\ \A po \in Perms(NumPlayers(game)) :
              /\ predict_actions(Pre, po) = predict_actions(Pre, RosterOrder(Pre))
              /\ step_visiting(Pre, po, RosterOrder(Pre)) = step(Pre)
        /\ \A ao \in Perms(NumPlayers(game)) :
              step_visiting(Pre, RosterOrder(Pre), ao) = step(Pre)

C1_Witness ==
    /\ Running
    /\ \E i, k \in Players :
          /\ i # k /\ Alive(i) /\ Alive(k)
          /\ predict_next_action(Pre, i) = "Move"
          /\ predict_next_action(Pre, k) = "Move"
          /\ Candidate(i) = TailCell(k)

(***************************************************************************)
(* C2.  As claimed: any two distinct alive players whose candidate next    *)
(* heads are the same cell both predict Hold, and the step leaves both     *)
(* alive with unchanged bodies.                                            *)
(***************************************************************************)
C2_Original ==
    Running =>
        \A i, k \in Players :
            (i # k /\ Alive(i) /\ Alive(k) /\ Candidate(i) = Candidate(k)) =>
                /\ predict_next_action(Pre, i) = "Hold"
                /\ predict_next_action(Pre, k) = "Hold"
                /\ step(Pre).players[i + 1].snake = Pre.players[i + 1].snake
                /\ step(Pre).players[k + 1].snake = Pre.players[k + 1].snake

(***************************************************************************)
(* C2, amended.  Two distinct alive players whose candidate next heads are *)
(* the same cell, that cell being inside the field and no non-tail body    *)
(* cell of an alive snake, both predict Hold, and the step leaves both     *)
(* alive with unchanged bodies.                                            *)
(***************************************************************************)
C2_HoldOnContest ==
    Running =>
        \A i, k \in Players :
            (/\ i # k /\ Alive(i) /\ Alive(k)
             /\ Candidate(i) = Candidate(k)
             /\ InField(Candidate(i))
             /\ ~OnNonTail(Candidate(i))) =>
                /\ predict_next_action(Pre, i) = "Hold"
                /\ predict_next_action(Pre, k) = "Hold"
                /\ step(Pre).players[i + 1].snake = Pre.players[i + 1].snake
                /\ step(Pre).players[k + 1].snake = Pre.players[k + 1].snake

C2_Witness ==
    /\ Running
    /\ \E i, k \in Players :
          /\ i # k /\ Alive(i) /\ Alive(k)
          /\ Candidate(i) = Candidate(k)
          /\ InField(Candidate(i))
          /\ ~OnNonTail(Candidate(i))
          /\ steps > 0

(***************************************************************************)
(* C3.  An alive player whose candidate next head is inside the field and  *)
(* is a body cell other than the tail of any alive snake, its own          *)
(* included, predicts Die.                                                 *)
(***************************************************************************)
C3_DieOnBody ==
    Running =>
        \A i \in Players :
            (Alive(i) /\ InField(Candidate(i)) /\ OnNonTail(Candidate(i))) =>
                predict_next_action(Pre, i) = "Die"

C3_Witness ==
    /\ Running
    /\ \E i, k \in Players :
          /\ i # k /\ Alive(i) /\ Alive(k)
          /\ InField(Candidate(i))
          /\ Candidate(i) \in NonTailCells(k)

(***************************************************************************)
(* C4.  An alive player whose candidate next head is inside the field, is  *)
(* the tail cell of an alive snake, is no non-tail body cell of an alive   *)
(* snake and is no other alive player's candidate, predicts Move.          *)
(***************************************************************************)
C4_MoveOntoTail ==
    Running =>
        \A i \in Players :
            (/\ Alive(i)
             /\ InField(Candidate(i))
             /\ \E k \in Players : Alive(k) /\ Candidate(i) = TailCell(k)
             /\ ~OnNonTail(Candidate(i))
             /\ ~Contested(i)) =>
                predict_next_action(Pre, i) = "Move"

C4_Witness ==
    /\ Running
    /\ \E i, k \in Players :
          /\ i # k /\ Alive(i) /\ Alive(k)
          /\ InField(Candidate(i))
          /\ Candidate(i) = TailCell(k)
          /\ ~OnNonTail(Candidate(i))
          /\ ~Contested(i)

(***************************************************************************)
(* C5.  In every reachable state no grid cell is occupied by two body      *)
(* segments: the bodies of distinct alive snakes are disjoint and no       *)
(* snake's body contains a cell twice.                                     *)
(***************************************************************************)
BodyCells(g, k) == { unwrap(g.players[k].snake).body[b] :
                        b \in 1..Len(unwrap(g.players[k].snake).body) }

C5_NoSharedCell ==
    \A k \in 1..Len(game.players) :
        alive(game.players[k]) =>
            /\ Cardinality(BodyCells(game, k)) = Len(unwrap(game.players[k].snake).body)
            /\ \A m \in 1..Len(game.players) :
                  (m # k /\ alive(game.players[m])) =>
                      BodyCells(game, k) \cap BodyCells(game, m) = {}

(***************************************************************************)
(* C6.  An alive player whose candidate next head is outside the field     *)
(* predicts Die, whatever the other players do, and the step makes that    *)
(* player dead.                                                            *)
(***************************************************************************)
C6_DieOutside ==
    Running =>
        \A i \in Players :
            (Alive(i) /\ ~InField(Candidate(i))) =>
                /\ predict_next_action(Pre, i) = "Die"
                /\ ~alive(step(Pre).players[i + 1])

C6_Witness ==
    /\ Running
    /\ steps > 0
    /\ \E i, k \in Players :
          /\ i # k /\ Alive(i) /\ Alive(k)
          /\ ~InField(Candidate(i))
          /\ predict_next_action(Pre, k) = "Move"

(***************************************************************************)
(* C7.  As claimed: a Move onto a food cell raises the score by 1, removes *)
(* exactly that cell from the pool and raises grow_counter by 1, the body  *)
(* length being unchanged by this move and the next move keeping the tail; *)
(* a Move onto a cell without food changes neither score nor pool.         *)
(***************************************************************************)
Movers == { i \in Players : predict_next_action(Pre, i) = "Move" }

FoodAt(pos) == \E z \in 1..Len(Pre.pizzas) : Pre.pizzas[z] = pos

PoolWithout(pos) == SelectSeq(Pre.pizzas, LAMBDA c : c # pos)

EatsAsSpecified(i, after) ==
    /\ after.players[i + 1].score = Pre.players[i + 1].score + 1
    /\ after.pizzas = PoolWithout(Candidate(i))
    /\ Len(after.pizzas) = Len(Pre.pizzas) - 1
    /\ \A k \in Players : k # i => after.players[k + 1] = Pre.players[k + 1]
    /\ unwrap(after.players[i + 1].snake).body[1] = Candidate(i)

NoFoodAsSpecified(i, after) ==
    /\ after.players[i + 1].score = Pre.players[i + 1].score
    /\ after.pizzas = Pre.pizzas
    /\ unwrap(after.players[i + 1].snake) = move_forward(SnakeOf(i))

NextMoveKeepsTail(snake) ==
    /\ snake.grow_counter > 0
    /\ Len(move_forward(snake).body) = Len(snake.body) + 1

C7_Original ==
    Running =>
        \A i \in Movers :
            LET after == move_player(Pre, i)
                moved == unwrap(after.players[i + 1].snake)
            IN  IF FoodAt(Candidate(i))
                THEN /\ EatsAsSpecified(i, after)
                     /\ moved.grow_counter = SnakeOf(i).grow_counter + 1
                     /\ Len(moved.body) = Len(SnakeOf(i).body)
                     /\ NextMoveKeepsTail(moved)
                ELSE NoFoodAsSpecified(i, after)

(***************************************************************************)
(* C7, amended.  A Move onto a food cell raises the score by 1, removes    *)
(* exactly that cell from the pool and raises grow_counter by 1 over the   *)
(* value move_forward left, so the next move keeps the tail; the body      *)
(* length is unchanged by this move when grow_counter was 0 before it,     *)
(* and otherwise this move lengthens the body by 1 and grow_counter ends   *)
(* as it began.  A Move onto a cell without food changes neither score     *)
(* nor pool.                                                               *)
(***************************************************************************)
C7_EatOnMove ==
    Running =>
        \A i \in Movers :
            LET after == move_player(Pre, i)
                moved == unwrap(after.players[i + 1].snake)
                before == SnakeOf(i)
            IN  IF FoodAt(Candidate(i))
                THEN /\ EatsAsSpecified(i, after)
                     /\ moved.grow_counter = move_forward(before).grow_counter + 1
                     /\ before.grow_counter = 0 =>
                            /\ Len(moved.body) = Len(before.body)
                            /\ moved.grow_counter = 1
                     /\ before.grow_counter > 0 =>
                            /\ Len(moved.body) = Len(before.body) + 1
                            /\ moved.grow_counter = before.grow_counter
                     /\ NextMoveKeepsTail(moved)
                ELSE NoFoodAsSpecified(i, after)

C7_Witness ==
    /\ Running
    /\ \E i \in Movers :
          /\ FoodAt(Candidate(i))
          /\ SnakeOf(i).grow_counter = 0
          /\ Len(Pre.pizzas) > 1
    /\ \E k \in Movers : ~FoodAt(Candidate(k))

(***************************************************************************)
(* C8.  A dead player always predicts Hold and has no effect on any other  *)
(* player's predicted action: every alive player predicts what it would    *)
(* predict in the game without the dead players.                           *)
(***************************************************************************)
WithoutDead(g) == [g EXCEPT !.players = SelectSeq(g.players, alive)]

AliveRank(g, i) == Cardinality({ k \in 0..(i - 1) : alive(PlayerAt(g, k)) })

SpawnSnake(i) ==
    LET spawn == calc_spawn_pos(i, INITIAL_LENGTH, game.field_size)
    IN  Snake_new(spawn[1], spawn[2], INITIAL_LENGTH)

C8_DeadPlayersInert ==
    Running =>
        \A i \in Players :
            IF Alive(i)
            THEN predict_next_action(Pre, i) =
                    predict_next_action(WithoutDead(Pre), AliveRank(Pre, i))
            ELSE predict_next_action(Pre, i) = "Hold"

C8_Witness ==
    /\ Running
    /\ \E d, i \in Players :
          /\ ~Alive(d)
          /\ PlayerAt(game, d).control = None
          /\ ~InField(candidate_head(SpawnSnake(d)))
          /\ Alive(i)
          /\ \E b \in 1..INITIAL_LENGTH : Candidate(i) = SpawnSnake(d).body[b]
          /\ predict_next_action(Pre, i) = "Move"

(***************************************************************************)
(* C9.  Death is terminal: a player whose snake is None has its snake None *)
(* in every later state, whatever intents arrive and steps are performed.  *)
(***************************************************************************)
DeadStayDead ==
    \A k \in 1..Len(game.players) :
        ~alive(game.players[k]) => ~alive(game'.players[k])

C9_DeathIsTerminal == [][DeadStayDead]_vars

C9_Witness ==
    /\ Running
    /\ steps >= 1
    /\ \E d, i \in Players :
          /\ ~alive(PlayerAt(game, d))
          /\ alive(PlayerAt(game, i))
          /\ is_some(PlayerAt(game, d).control)
          /\ Len(unwrap(PlayerAt(game, d).control)) > 0

(***************************************************************************)
(* C10.  The loop sends exactly one Update (grid snapshot and per-player   *)
(* score/alive summaries) after each completed step, sends GameOver once,  *)
(* when all players are dead, and sends nothing after GameOver.            *)
(***************************************************************************)
EventKind(e) == events[e][1]

UpdatesSent == Cardinality({ e \in 1..Len(events) : EventKind(e) = "Update" })

C10_EventProtocol ==
    /\ UpdatesSent = steps
    /\ \A e \in 1..Len(events) :
          EventKind(e) = "GameOver" =>
              /\ e = Len(events)
              /\ pc = "returned"
              /\ \A k \in 1..Len(game.players) : ~alive(game.players[k])
              /\ events[e][2] = players_summary(game)
    /\ (pc = "returned" /\ \A k \in 1..Len(game.players) : ~alive(game.players[k])) =>
          /\ Len(events) > 0
          /\ EventKind(Len(events)) = "GameOver"
    /\ (Len(events) > 0 /\ EventKind(Len(events)) = "Update") =>
          /\ events[Len(events)][2] = generate_grid(game)
          /\ events[Len(events)][3] = players_summary(game)

C10_Witness ==
    /\ pc = "returned"
    /\ steps >= 2
    /\ Len(events) = steps + 1
    /\ EventKind(Len(events)) = "GameOver"
    /\ \E k \in 1..Len(game.players) : game.players[k].score > 0

(***************************************************************************)
(* C11.  A step takes exactly one UPDATE_INTERVAL off the elapsed time of  *)
(* the running timer, so by time T after the loop started at most          *)
(* floor(T / UPDATE_INTERVAL) steps have been performed.  The loop starts  *)
(* at the time of Init: no time passes during setup.                       *)
(***************************************************************************)
TimeInLoop == now - 2 * UPDATE_INTERVAL

C11_StepsWithinTime ==
    pc # "setup" => steps * UPDATE_INTERVAL <= TimeInLoop

(***************************************************************************)
(* C12.  With a shutdown message in the channel at the top of an           *)
(* iteration, game_loop returns in that iteration: no intent is drained    *)
(* and no step is performed, and only time can pass before the return.     *)
(* A step that is performed is performed whole, predict and apply for      *)
(* every player, and the loop then goes on to its next iteration top.      *)
(***************************************************************************)
ShutdownPending == pc = "loop" /\ shutdown_rx > 0

WholeStep ==
    LET stepped == step(read_all_inputs(game))
    IN  /\ game' = [stepped EXCEPT !.grid = generate_grid(stepped)]
        /\ pc' = "loop"
        /\ shutdown_rx' = shutdown_rx

ReturnsOnShutdown ==
    /\ ShutdownPending =>
          /\ game' = game
          /\ steps' = steps
          /\ pc' = "returned" \/ (pc' = pc /\ now' # now)
    /\ steps' # steps => WholeStep

C12_ShutdownReturns == [][ReturnsOnShutdown]_vars

C12_Witness ==
    /\ pc = "returned"
    /\ steps \in 1..(MaxSteps - 1)
    /\ elapsed > UPDATE_INTERVAL
    /\ \E k \in 1..Len(game.players) :
          /\ alive(game.players[k])
          /\ is_some(game.players[k].control)
          /\ Len(unwrap(game.players[k].control)) > 0

(***************************************************************************)
(* C13.  game_loop returns only when no player is alive or a shutdown      *)
(* message was received.  While some player is alive and no message has    *)
(* been sent the loop does not return; once no player is alive (the last   *)
(* one died, or none was registered) the loop can only return, with no     *)
(* further step.                                                           *)
(***************************************************************************)
AllDead == \A k \in 1..Len(game.players) : ~alive(game.players[k])

SnakesOf(g) == [k \in 1..Len(g.players) |-> g.players[k].snake]

ReturnsOnlyWhenOver ==
    /\ (pc = "loop" /\ pc' = "returned") =>
          \/ AllDead
          \/ shutdown_rx > 0 /\ shutdown_rx' = shutdown_rx - 1
    /\ (pc = "loop" /\ ~AllDead /\ shutdown_rx = 0) =>
          /\ ~game_over(game)
          /\ pc' = "loop"
    /\ (pc = "loop" /\ AllDead) =>
          /\ game_over(game)
          /\ steps' = steps
          /\ SnakesOf(game') = SnakesOf(game)
          /\ game'.pizzas = game.pizzas
          /\ pc' = "returned" \/ (pc' = pc /\ events' = events)

C13_LoopTermination == [][ReturnsOnlyWhenOver]_vars

C13_Witness ==
    /\ pc = "returned"
    /\ AllDead
    /\ shutdown_rx = 0
    /\ Len(game.players) >= 2
    /\ steps \in 1..(MaxSteps - 1)

(***************************************************************************)
(* Vocabulary of the claims about single calls: the unit vector of a       *)
(* direction, and the last call with its arguments and result.             *)
(***************************************************************************)
Unit(d) ==
    [x |-> IF d = "PlusX" THEN 1 ELSE IF d = "MinusX" THEN -1 ELSE 0,
     y |-> IF d = "PlusY" THEN 1 ELSE IF d = "MinusY" THEN -1 ELSE 0]

Last(fn) == call.fn = fn

(***************************************************************************)
(* C14.  read_inputs leaves the intent queue empty.  For an alive player   *)
(* the snake is the result of try_set_look_direction applied to every      *)
(* queued intent in FIFO order; for a dead player the intents are removed  *)
(* and nothing else changes; with an empty or absent intent source (a      *)
(* disconnected source with nothing buffered reads as an empty one) the    *)
(* player is left unchanged.                                               *)
(***************************************************************************)
RECURSIVE AppliedInOrder(_, _, _)
AppliedInOrder(snake, queue, k) ==
    IF k = 0 THEN snake
    ELSE try_set_look_direction(AppliedInOrder(snake, queue, k - 1), queue[k])

C14_ReadInputs ==
    Last("read_inputs") =>
        LET before == call.args[1]
            after == call.result[1]
        IN  /\ game.players[1] = after
            /\ after.score = before.score
            /\ IF ~is_some(before.control) THEN after = before
               ELSE LET queue == unwrap(before.control)
                    IN  /\ after.control = Some(<< >>)
                        /\ queue = << >> => after = before
                        /\ ~alive(before) => ~alive(after)
                        /\ alive(before) =>
                              /\ alive(after)
                              /\ unwrap(after.snake) =
                                    AppliedInOrder(unwrap(before.snake), queue, Len(queue))

C14_Witness ==
    /\ Last("read_inputs")
    /\ alive(call.args[1])
    /\ is_some(call.args[1].control)
    /\ LET queue == unwrap(call.args[1].control)
           before == unwrap(call.args[1].snake)
           after == unwrap(call.result[1].snake)
       IN  /\ Len(queue) = 2
           /\ queue[1] # queue[2]
           /\ queue[1] # before.look_direction
           /\ try_set_look_direction(before, queue[1]).look_direction = queue[1]
           /\ after.look_direction = queue[2]

(***************************************************************************)
(* C15.  As claimed: try_set_look_direction rejects exactly the direction  *)
(* whose unit vector is body[0] - body[1] and accepts every other one.     *)
(***************************************************************************)
C15_Original ==
    Last("try_set_look_direction") =>
        LET snake == call.args[1]
            direction == call.args[2]
            after == call.result[1]
        IN  IF Unit(direction) = vec_sub(snake.body[1], snake.body[2])
            THEN after = snake
            ELSE after = [snake EXCEPT !.look_direction = direction]

(***************************************************************************)
(* C15, amended.  try_set_look_direction rejects exactly the direction     *)
(* whose unit vector is body[1] - body[0], the one pointing from the head  *)
(* to the neck (facing is then unchanged), and accepts every other one of  *)
(* the four directions, which becomes the new facing.                      *)
(***************************************************************************)
C15_RejectsReverse ==
    Last("try_set_look_direction") =>
        LET snake == call.args[1]
            direction == call.args[2]
            after == call.result[1]
        IN  /\ game.players[1].snake = Some(after)
            /\ IF Unit(direction) = vec_sub(snake.body[2], snake.body[1])
               THEN after = snake
               ELSE after = [snake EXCEPT !.look_direction = direction]

C15_Witness ==
    /\ Last("try_set_look_direction")
    /\ steps = MaxCalls
    /\ LET snake == call.args[1]
           direction == call.args[2]
       IN  /\ Unit(direction) = vec_sub(snake.body[2], snake.body[1])
           /\ snake.body[1] \notin SnakeHeads
           /\ call.result[1].look_direction = snake.look_direction
           /\ direction # snake.look_direction

(***************************************************************************)
(* C16.  move_forward prepends head + unit(look_direction) and keeps the   *)
(* rest in order; with grow_counter 0 the last cell is dropped and the     *)
(* length is unchanged, otherwise no cell is dropped, the length grows by  *)
(* 1 and grow_counter drops by 1.  The facing is unchanged.                *)
(***************************************************************************)
C16_MoveForward ==
    Last("move_forward") =>
        LET snake == call.args[1]
            after == call.result[1]
        IN  /\ game.players[1].snake = Some(after)
            /\ after.look_direction = snake.look_direction
            /\ after.body[1] = [x |-> snake.body[1].x + Unit(snake.look_direction).x,
                                y |-> snake.body[1].y + Unit(snake.look_direction).y]
            /\ \A i \in 2..Len(after.body) : after.body[i] = snake.body[i - 1]
            /\ IF snake.grow_counter = 0
               THEN /\ Len(after.body) = Len(snake.body)
                    /\ after.grow_counter = 0
               ELSE /\ Len(after.body) = Len(snake.body) + 1
                    /\ after.grow_counter = snake.grow_counter - 1

C16_Witness ==
    /\ Last("move_forward")
    /\ steps = MaxCalls
    /\ call.args[1].grow_counter = MaxFood
    /\ Len(call.result[1].body) = Len(call.args[1].body) + 1
    /\ call.args[1].look_direction # "PlusX"

(***************************************************************************)
(* C17.  In every state of the game every alive snake has at least two     *)
(* cells, and its head and neck are at Manhattan distance 1, so the        *)
(* assertion of backward_direction does not fail.                          *)
(***************************************************************************)
Manhattan(a, b) ==
    (IF a.x >= b.x THEN a.x - b.x ELSE b.x - a.x)
    + (IF a.y >= b.y THEN a.y - b.y ELSE b.y - a.y)

C17_HeadNeckAdjacent ==
    \A k \in 1..Len(game.players) :
        alive(game.players[k]) =>
            LET snake == unwrap(game.players[k].snake)
            IN  /\ Len(snake.body) >= 2
                /\ Manhattan(snake.body[1], snake.body[2]) = 1
                /\ backward_direction_asserts(snake)

C17_Witness ==
    /\ steps = MaxSteps
    /\ \E k \in 1..Len(game.players) :
          /\ alive(game.players[k])
          /\ LET snake == unwrap(game.players[k].snake)
                 spawn == calc_spawn_pos(k - 1, INITIAL_LENGTH, game.field_size)
             IN  /\ Len(snake.body) > INITIAL_LENGTH
                 /\ snake.look_direction # spawn[2]
                 /\ snake.body[1].x # spawn[1].x
                 /\ snake.body[1].y # spawn[1].y

(***************************************************************************)
(* C18.  calc_spawn_pos on a field (W, H) with length L gives, with        *)
(* integer division by 2: slot 0 -> (W/2 - L, H/2) facing MinusX; slot 1   *)
(* -> (W/2, H/2 - L) facing MinusY; slot 2 -> (W/2 + L, H/2) facing PlusX; *)
(* slot 3 -> (W/2, H/2 + L) facing PlusY; a slot >= 4 panics.              *)
(***************************************************************************)
SpawnTable(slot, L, W, H) ==
    CASE slot = 0 -> << [x |-> (W \div 2) - L, y |-> H \div 2], "MinusX" >>
      [] slot = 1 -> << [x |-> W \div 2, y |-> (H \div 2) - L], "MinusY" >>
      [] slot = 2 -> << [x |-> (W \div 2) + L, y |-> H \div 2], "PlusX" >>
      [] slot = 3 -> << [x |-> W \div 2, y |-> (H \div 2) + L], "PlusY" >>

C18_SpawnTable ==
    Last("calc_spawn_pos") =>
        LET slot == call.args[1]
            L == call.args[2]
            size == call.args[3]
        IN  IF slot >= 4
            THEN call.result = None /\ pc = "panicked"
            ELSE /\ pc = "setup"
                 /\ call.result = Some(SpawnTable(slot, L, size.x, size.y))

C18_Witness ==
    /\ Last("calc_spawn_pos")
    /\ call.args[1] = 3
    /\ call.args[2] = MaxSnakeLen
    /\ call.args[3].x % 2 = 1
    /\ call.args[3].y % 2 = 0
    /\ is_some(call.result)

(***************************************************************************)
(* C19.  register_player returns the number of players registered before  *)
(* the call; the new player is alive with score 0 and a snake of length    *)
(* INITIAL_LENGTH at the spawn point of its slot, and the earlier players  *)
(* are unchanged.  A fifth registration panics and leaves the roster of 4  *)
(* players as it was.                                                      *)
(***************************************************************************)
C19_RegisterPlayer ==
    Last("register_player") =>
        LET before == call.args[1]
            control == call.args[2]
            n == Len(before.players)
        IN  IF n >= 4
            THEN /\ call.result = None
                 /\ pc = "panicked"
                 /\ n = 4
                 /\ game = before
            ELSE LET returned == unwrap(call.result)[1]
                     after == unwrap(call.result)[2]
                     player == after.players[n + 1]
                     spawn == SpawnTable(n, INITIAL_LENGTH, before.field_size.x,
                                         before.field_size.y)
                 IN  /\ returned = n
                     /\ game = after
                     /\ Len(after.players) = n + 1
                     /\ SubSeq(after.players, 1, n) = before.players
                     /\ after.field_size = before.field_size
                     /\ after.pizzas = before.pizzas
                     /\ alive(player)
                     /\ player.score = 0
                     /\ player.control = control
                     /\ Len(unwrap(player.snake).body) = INITIAL_LENGTH
                     /\ unwrap(player.snake).body[1] = spawn[1]
                     /\ unwrap(player.snake).look_direction = spawn[2]

C19_Witness ==
    /\ Last("register_player")
    /\ call.result = None
    /\ pc = "panicked"
    /\ Len(game.players) = 4
    /\ \E k \in 1..4 : is_some(game.players[k].control)
    /\ \E k \in 1..4 : ~is_some(game.players[k].control)

(***************************************************************************)
(* C20.  Snake::new(p, d, n) with n >= 2 gives the body                    *)
(* [p, p - unit(d), ..., p - (n-1)*unit(d)], facing d and grow_counter 0;  *)
(* with n < 2 it panics and no snake is produced.                          *)
(***************************************************************************)
C20_SnakeNew ==
    Last("Snake::new") =>
        LET p == call.args[1]
            d == call.args[2]
            n == call.args[3]
        IN  IF n >= 2
            THEN /\ pc = "unit"
                 /\ is_some(call.result)
                 /\ game.players[1].snake = call.result
                 /\ unwrap(call.result) =
                       [look_direction |-> d,
                        body |-> [i \in 1..n |-> [x |-> p.x - (i - 1) * Unit(d).x,
                                                  y |-> p.y - (i - 1) * Unit(d).y]],
                        grow_counter |-> 0]
            ELSE /\ pc = "panicked"
                 /\ call.result = None
                 /\ game.players = << >>

C20_Witness ==
    /\ Last("Snake::new")
    /\ call.args[3] = MaxSnakeLen
    /\ call.args[2] = "MinusY"
    /\ call.args[1] # Vector2i_new(0, 0)
    /\ is_some(call.result)

(***************************************************************************)
(* C21.  try_set_look_direction(d) returns true exactly when the facing    *)
(* after the call is d; on every alive snake of a reachable game state,    *)
(* before or after its intents are read, it returns false exactly when d   *)
(* is the reversal (unit(d) = body[1] - body[0]) and the call left the     *)
(* snake as it was.                                                        *)
(***************************************************************************)
ReturnTellsFacing(snake) ==
    \A d \in Direction :
        LET after == try_set_look_direction(snake, d)
            returned == try_set_look_direction_result(snake, d)
            reversal == Unit(d) = vec_sub(snake.body[2], snake.body[1])
        IN  /\ returned <=> after.look_direction = d
            /\ ~returned <=> (reversal /\ after = snake)

C21_ReturnValue ==
    pc = "loop" =>
        \A k \in 1..Len(game.players) :
            alive(game.players[k]) =>
                /\ ReturnTellsFacing(unwrap(game.players[k].snake))
                /\ ReturnTellsFacing(unwrap(Pre.players[k].snake))

C21_Witness ==
    /\ pc = "loop"
    /\ steps >= 2
    /\ \E k \in 1..Len(game.players), d \in Direction :
          /\ alive(game.players[k])
          /\ LET snake == unwrap(game.players[k].snake)
                 spawn == calc_spawn_pos(k - 1, INITIAL_LENGTH, game.field_size)
             IN  /\ snake.look_direction # spawn[2]
                 /\ ~try_set_look_direction_result(snake, d)
                 /\ try_set_look_direction_result(snake, snake.look_direction)

(***************************************************************************)
(* The growth scenario of test_snake_move_forward_after_eat: a snake is    *)
(* built, eat is called once, and move_forward is called repeatedly.  The  *)
(* call of eat stays recorded in call while steps counts the calls of      *)
(* move_forward made since.                                                *)
(***************************************************************************)
MaxMoves == 4

CallEatOnce ==
    /\ pc = "unit"
    /\ NumPlayers(game) = 1
    /\ \E food \in 0..MaxFood :
          LET snake == unwrap(game.players[1].snake)
              after == eat(snake, food)
          IN  /\ game' = [game EXCEPT !.players[1].snake = Some(after)]
              /\ call' = Called("eat", << snake, food >>, << after >>)
    /\ pc' = "fed"
    /\ UNCHANGED << shutdown_rx, now, timer, steps, intents_sent, events >>

CallMoveForwardFed ==
    /\ pc = "fed"
    /\ steps < MaxMoves
    /\ game' = [game EXCEPT !.players[1].snake =
                   Some(move_forward(unwrap(game.players[1].snake)))]
    /\ steps' = steps + 1
    /\ UNCHANGED << pc, shutdown_rx, now, timer, intents_sent, events, call >>

NextGrowth ==
    \/ CallSnakeNew
    \/ CallEatOnce
    \/ CallMoveForwardFed

SpecGrowth == InitSnake /\ [][NextGrowth]_vars

(***************************************************************************)
(* C22.  Growth is deferred: eat(n) with n >= 0 leaves the body as it was; *)
(* when grow_counter was 0 before the call, the body is one cell longer    *)
(* after each of the next n calls of move_forward and keeps its length in  *)
(* every later call, so after k calls it is min(k, n) cells longer.        *)
(***************************************************************************)
Min(a, b) == IF a <= b THEN a ELSE b

C22_DeferredGrowth ==
    pc = "fed" =>
        LET before == call.args[1]
            n == call.args[2]
            fed == call.result[1]
            snake == unwrap(game.players[1].snake)
        IN  /\ n >= 0
            /\ fed.body = before.body
            /\ before.grow_counter = 0 =>
                  Len(snake.body) = Len(before.body) + Min(steps, n)

C22_Witness ==
    /\ pc = "fed"
    /\ call.args[1].grow_counter = 0
    /\ call.args[2] = 2
    /\ steps = 4
    /\ Len(unwrap(game.players[1].snake).body) = Len(call.args[1].body) + 2

(***************************************************************************)
(* C23.  A step adds 1 to the score of exactly the players whose action is *)
(* Move onto a food cell and changes no other score; it removes from the   *)
(* food pool exactly the cells such players move onto; Hold leaves the     *)
(* player as it was; Die sets the snake to None and keeps the score and    *)
(* the control.  No score decreases, and the roster length and field_size  *)
(* stay as they were.                                                      *)
(***************************************************************************)
Eaters == { i \in Movers : FoodAt(Candidate(i)) }

Eaten(pos) == \E i \in Eaters : Candidate(i) = pos

C23_StepFrame ==
    Running =>
        LET after == step(Pre)
        IN  /\ Len(after.players) = Len(Pre.players)
            /\ after.field_size = Pre.field_size
            /\ after.pizzas = SelectSeq(Pre.pizzas, LAMBDA c : ~Eaten(c))
            /\ \A i \in Players :
                  LET was == Pre.players[i + 1]
                      is == after.players[i + 1]
                      action == predict_next_action(Pre, i)
                  IN  /\ is.score = was.score + (IF i \in Eaters THEN 1 ELSE 0)
                      /\ is.score >= was.score
                      /\ action = "Hold" => is = was
                      /\ action = "Die" => is = [was EXCEPT !.snake = None]
                      /\ action = "Move" => alive(is)

C23_Witness ==
    /\ Running
    /\ steps >= 2
    /\ Eaters # {}
    /\ \E i \in Players :
          /\ predict_next_action(Pre, i) = "Die"
          /\ Pre.players[i + 1].score > 0
    /\ Len(step(Pre).pizzas) < Len(Pre.pizzas)

(***************************************************************************)
(* C24.  generate_grid depends only on the field size, the bodies of the   *)
(* alive snakes and the food pool: the grid has one cell per position of   *)
(* the field; a cell that is body[0] of alive player i is Snake{i, Head},  *)
(* one that is i's last body cell is Snake{i, Tail}, one that is any other *)
(* body cell of i is Snake{i, Body}; a cell in no alive snake's body is    *)
(* Pizza if it is in the food pool and Empty otherwise.                    *)
(***************************************************************************)
Cells(g) == (0..(g.field_size.x - 1)) \X (0..(g.field_size.y - 1))

PartAt(snake, b) ==
    IF b = 1 THEN "Head"
    ELSE IF b = Len(snake.body) THEN "Tail"
    ELSE "Body"

InPool(g, c) == \E z \in 1..Len(g.pizzas) : g.pizzas[z] = Vector2i_new(c[1], c[2])

GridAsSpecified(g) ==
    LET grid == generate_grid(g)
    IN  /\ DOMAIN grid = Cells(g)
        /\ \A c \in Cells(g) :
              /\ \A k \in 1..Len(g.players) :
                    alive(g.players[k]) =>
                        LET snake == unwrap(g.players[k].snake)
                        IN  \A b \in 1..Len(snake.body) :
                                snake.body[b] = Vector2i_new(c[1], c[2]) =>
                                    grid[c] = SnakeCell(k - 1, PartAt(snake, b))
              /\ (\A k \in 1..Len(g.players) :
                    alive(g.players[k]) => Vector2i_new(c[1], c[2]) \notin BodyCells(g, k))
                    => grid[c] = (IF InPool(g, c) THEN Pizza ELSE Empty)

C24_GridContents == GridAsSpecified(game)

(***************************************************************************)
(* Food placement: calc_spaw_pos_for_pizza called on the grid of a game    *)
(* that has its food pool and its registered players, with every estimate  *)
(* of the free cells up to one more than the field holds and every draw of *)
(* the random number up to MaxRandom, once in a run.                       *)
(***************************************************************************)
MaxRandom == 30

CallCalcSpawPosForPizza ==
    /\ pc = "setup"
    /\ call = NoCall
    /\ \E estimated_free_cells \in 0..(game.field_size.x * game.field_size.y + 1),
          random \in 0..MaxRandom :
          LET grid == generate_grid(game)
              result == calc_spaw_pos_for_pizza(grid, estimated_free_cells, random)
          IN  /\ call' = Called("calc_spaw_pos_for_pizza",
                                << grid, estimated_free_cells, random >>, result)
              /\ pc' = IF result = None THEN "panicked" ELSE pc
    /\ UNCHANGED << game, shutdown_rx, now, timer, steps, intents_sent, events >>

NextPizza ==
    \/ RegisterPlayer
    \/ CallCalcSpawPosForPizza

SpecPizza == Init /\ [][NextPizza]_vars

(***************************************************************************)
(* C25.  calc_spaw_pos_for_pizza(grid, n) with 1 <= n <= the number of     *)
(* Empty cells of the grid returns, for the draw r, the Empty cell that    *)
(* has exactly r mod n Empty cells before it in x-major scan order; with n *)
(* above the number of Empty cells the draws with r mod n at or above that *)
(* number, and only those, find no cell, and the function panics.          *)
(***************************************************************************)
EmptyCells(grid) == { c \in DOMAIN grid : grid[c] = Empty }

ScannedBefore(c, d) == c[1] < d[1] \/ (c[1] = d[1] /\ c[2] < d[2])

EmptyBefore(grid, d) == Cardinality({ c \in EmptyCells(grid) : ScannedBefore(c, d) })

C25_PizzaSpawn ==
    Last("calc_spaw_pos_for_pizza") =>
        LET grid == call.args[1]
            n == call.args[2]
            r == call.args[3]
            free == Cardinality(EmptyCells(grid))
            found == << unwrap(call.result).x, unwrap(call.result).y >>
        IN  /\ (1 <= n /\ n <= free) =>
                  /\ is_some(call.result)
                  /\ found \in EmptyCells(grid)
                  /\ EmptyBefore(grid, found) = r % n
            /\ n > free =>
                  /\ call.result = None <=> r % n >= free
                  /\ is_some(call.result) =>
                        found \in EmptyCells(grid) /\ EmptyBefore(grid, found) = r % n
            /\ call.result = None <=> pc = "panicked"

C25_Witness ==
    /\ Last("calc_spaw_pos_for_pizza")
    /\ NumPlayers(game) = 2
    /\ Len(game.pizzas) = 2
    /\ call.args[2] = Cardinality(EmptyCells(call.args[1]))
    /\ call.args[3] > call.args[2]
    /\ is_some(call.result)
    /\ call.args[1][<< 0, 0 >>] = Empty
    /\ unwrap(call.result).x > 0
    /\ unwrap(call.result).y > 0

C25_WitnessPanic ==
    /\ Last("calc_spaw_pos_for_pizza")
    /\ call.args[2] = Cardinality(EmptyCells(call.args[1])) + 1
    /\ call.result = None
    /\ pc = "panicked"

(***************************************************************************)
(* C26.  num_empty_cells returns W*H minus the size of the food pool minus *)
(* the number of body cells of the alive players, and in every reachable   *)
(* state of a game that number is the number of Empty cells of the grid    *)
(* generate_grid() returns.                                                *)
(***************************************************************************)
AliveSegments(g) ==
    { kb \in (1..Len(g.players)) \X (1..(g.field_size.x * g.field_size.y)) :
        /\ alive(g.players[kb[1]])
        /\ kb[2] <= Len(unwrap(g.players[kb[1]].snake).body) }

C26_EmptyCount ==
    /\ num_empty_cells(game) =
          game.field_size.x * game.field_size.y - Len(game.pizzas)
             - Cardinality(AliveSegments(game))
    /\ num_empty_cells(game) = Cardinality(EmptyCells(generate_grid(game)))

(***************************************************************************)
(* C27.  In every reachable state of a game, before and after the intents  *)
(* are read, the facing of an alive snake never points from its head to    *)
(* its neck: unit(look_direction) # body[1] - body[0].  So the candidate   *)
(* head is never the neck cell, and a player that Moves in the step has    *)
(* its new head on a cell other than its old neck.                         *)
(***************************************************************************)
FacesAwayFromNeck(snake) ==
    /\ Unit(snake.look_direction) # vec_sub(snake.body[2], snake.body[1])
    /\ vec_add(snake.body[1], Unit(snake.look_direction)) # snake.body[2]

C27_NeverFacesNeck ==
    pc = "loop" =>
        /\ \A k \in 1..Len(game.players) :
              alive(game.players[k]) =>
                  /\ FacesAwayFromNeck(unwrap(game.players[k].snake))
                  /\ FacesAwayFromNeck(unwrap(Pre.players[k].snake))
        /\ \A i \in Movers :
              unwrap(step(Pre).players[i + 1].snake).body[1] # SnakeOf(i).body[2]

C27_Witness ==
    /\ Running
    /\ steps >= 1
    /\ \E i \in Movers :
          LET held == unwrap(game.players[i + 1].snake)
              queue == unwrap(game.players[i + 1].control)
          IN  /\ is_some(game.players[i + 1].control)
              /\ Len(queue) = 1
              /\ Unit(queue[1]) = vec_sub(held.body[2], held.body[1])
              /\ SnakeOf(i) = held
              /\ held.look_direction # calc_spawn_pos(i, INITIAL_LENGTH, game.field_size)[2]

(***************************************************************************)
(* C28.  In every reachable state of a game, before and after the intents  *)
(* are read and after a further step, every alive player has               *)
(* body length + grow_counter = INITIAL_LENGTH + score, and                *)
(* grow_counter >= 0.                                                      *)
(***************************************************************************)
LengthAccountsForScore(g) ==
    \A k \in 1..Len(g.players) :
        alive(g.players[k]) =>
            LET snake == unwrap(g.players[k].snake)
            IN  /\ Len(snake.body) + snake.grow_counter = INITIAL_LENGTH + g.players[k].score
                /\ snake.grow_counter >= 0

C28_LengthAndScore ==
    /\ LengthAccountsForScore(game)
    /\ LengthAccountsForScore(Pre)
    /\ pc = "loop" => LengthAccountsForScore(step(Pre))

C28_Witness ==
    /\ pc = "loop"
    /\ \E k \in 1..Len(game.players) :
          /\ alive(game.players[k])
          /\ game.players[k].score = 2
          /\ unwrap(game.players[k].snake).grow_counter = 1
          /\ Len(unwrap(game.players[k].snake).body) = INITIAL_LENGTH + 1
    /\ \E k \in 1..Len(game.players) :
          /\ alive(game.players[k])
          /\ game.players[k].score = 0

(***************************************************************************)
(* C29.  On a field of width >= 5 and height >= 5 with at most 4           *)
(* registered players, in every reachable state, before and after the      *)
(* intents are read and after a further step, every body cell of every     *)
(* alive snake is inside [0,W) x [0,H), so every cell generate_grid        *)
(* writes is a cell of the grid; and the candidate head of a player that   *)
(* Moves is inside the field.                                              *)
(***************************************************************************)
BodiesInField(g) ==
    /\ \A k \in 1..Len(g.players) :
          alive(g.players[k]) =>
              \A c \in BodyCells(g, k) :
                  0 <= c.x /\ c.x < g.field_size.x /\ 0 <= c.y /\ c.y < g.field_size.y
    /\ \A z \in 1..Len(players_stamps(g, 1)) :
          << players_stamps(g, 1)[z].pos.x, players_stamps(g, 1)[z].pos.y >> \in Cells(g)

C29_BodiesInField ==
    (game.field_size.x >= 5 /\ game.field_size.y >= 5 /\ NumPlayers(game) <= 4) =>
        /\ BodiesInField(game)
        /\ BodiesInField(Pre)
        /\ pc = "loop" =>
              /\ BodiesInField(step(Pre))
              /\ \A i \in Movers : InField(Candidate(i))

OnBorder(pos) ==
    \/ pos.x = 0 \/ pos.x = game.field_size.x - 1
    \/ pos.y = 0 \/ pos.y = game.field_size.y - 1

C29_Witness ==
    /\ Running
    /\ game.field_size.x >= 5
    /\ game.field_size.y >= 5
    /\ steps >= 2
    /\ \E i \in Movers :
          /\ Len(SnakeOf(i).body) > INITIAL_LENGTH
          /\ OnBorder(Candidate(i))
    /\ \E i \in Players :
          /\ Alive(i)
          /\ OnBorder(SnakeOf(i).body[1])
          /\ ~InField(Candidate(i))

(***************************************************************************)
(* C30.  In every reachable state of a game, before and after the intents  *)
(* are read and after a further step, no two alive snakes have their heads *)
(* on the same cell: two players that both Move have different candidate   *)
(* heads, and no player Moves onto the head cell of a snake that is alive  *)
(* after the step.                                                         *)
(***************************************************************************)
HeadsDistinct(g) ==
    \A k, m \in 1..Len(g.players) :
        (k # m /\ alive(g.players[k]) /\ alive(g.players[m])) =>
            unwrap(g.players[k].snake).body[1] # unwrap(g.players[m].snake).body[1]

C30_HeadsDistinct ==
    /\ HeadsDistinct(game)
    /\ HeadsDistinct(Pre)
    /\ pc = "loop" =>
          /\ HeadsDistinct(step(Pre))
          /\ \A i, k \in Movers : i # k => Candidate(i) # Candidate(k)
          /\ \A i \in Movers : \A k \in Players :
                (k # i /\ alive(step(Pre).players[k + 1])) =>
                    Candidate(i) # SnakeOf(k).body[1]

C30_Witness ==
    /\ Running
    /\ steps > 0
    /\ \E i, k \in Players :
          /\ i # k /\ Alive(i) /\ Alive(k)
          /\ Candidate(i) = Candidate(k)
          /\ predict_next_action(Pre, i) = "Hold"
          /\ predict_next_action(Pre, k) = "Hold"
    /\ \E j, m \in Players :
          /\ j # m /\ Alive(j) /\ Alive(m)
          /\ Candidate(j) = SnakeOf(m).body[1]
          /\ predict_next_action(Pre, j) = "Die"

(***************************************************************************)
(* The idle game: main registers up to MAX_SPAWN_SLOTS players on a field  *)
(* of width and height from FieldW and FieldH up and starts game_loop;     *)
(* no direction intent and no shutdown message is ever sent.  The thread   *)
(* of game_loop keeps running its iterations and time keeps advancing,     *)
(* which is weak fairness of the loop's actions and of Tick.               *)
(***************************************************************************)
IdleFieldSizes ==
    { Vector2i_new(w, h) : w \in FieldW..(FieldW + 2), h \in FieldH..(FieldH + 2) }

MaxIdleSteps == FieldW + FieldH

InitIdle ==
    /\ \E field_size \in IdleFieldSizes :
          \E pool \in PizzaPools(field_size) :
              game = [Game_new(field_size) EXCEPT !.pizzas = pool]
    /\ pc = "setup"
    /\ shutdown_rx = 0
    /\ now = 2 * UPDATE_INTERVAL
    /\ timer = 0
    /\ steps = 0
    /\ intents_sent = 0
    /\ events = << >>
    /\ call = NoCall

RegisterIdlePlayer ==
    /\ pc = "setup"
    /\ NumPlayers(game) < MAX_SPAWN_SLOTS
    /\ \E control \in {None, Some(<< >>)} :
          game' = register_player(game, control)
    /\ UNCHANGED << pc, shutdown_rx, now, timer, steps, intents_sent, events, call >>

LoopStepIdle == LoopStepWithin(MaxIdleSteps)

NextIdle ==
    \/ RegisterIdlePlayer
    \/ StartLoop
    \/ Tick
    \/ LoopGameOver
    \/ LoopPoll
    \/ LoopStepIdle

(***************************************************************************)
(* Weak fairness of LoopStepIdle, written out: LoopStepIdle is enabled     *)
(* exactly when StepDue holds, and it is the only action of NextIdle that  *)
(* adds 1 to steps.                                                        *)
(***************************************************************************)
StepDue ==
    /\ pc = "loop"
    /\ ~game_over(game)
    /\ shutdown_rx = 0
    /\ elapsed > UPDATE_INTERVAL
    /\ steps < MaxIdleSteps

FairLoopStepIdle == []<>(~StepDue) \/ []<><<steps' = steps + 1>>_vars

SpecIdle ==
    /\ InitIdle
    /\ [][NextIdle]_vars
    /\ WF_vars(Tick)
    /\ WF_vars(LoopGameOver)
    /\ FairLoopStepIdle

(***************************************************************************)
(* C31.  With 1 to 4 players registered on a field of width >= 5 and       *)
(* height >= 5, no intent and no shutdown message ever sent and time       *)
(* advancing: no alive player is ever given Hold, a player is given Die    *)
(* only with its candidate head outside the field, and once game_loop      *)
(* runs it eventually returns with every player dead.                      *)
(***************************************************************************)
IdlePremise ==
    /\ game.field_size.x >= 5
    /\ game.field_size.y >= 5
    /\ NumPlayers(game) >= 1
    /\ NumPlayers(game) <= 4

DiesOnlyAtWall ==
    (pc = "loop" /\ IdlePremise) =>
        \A i \in Players :
            Alive(i) =>
                /\ predict_next_action(Pre, i) # "Hold"
                /\ predict_next_action(Pre, i) = "Die" => ~InField(Candidate(i))

C31_IdleGameEnds ==
    /\ []DiesOnlyAtWall
    /\ (pc = "loop" /\ IdlePremise) ~> (pc = "returned" /\ AllDead)

C31_Witness ==
    /\ pc = "returned"
    /\ AllDead
    /\ NumPlayers(game) = 4
    /\ game.field_size.x = FieldW + 2
    /\ game.field_size.y = FieldH + 1
    /\ steps >= 2
    /\ shutdown_rx = 0
    /\ intents_sent = 0

=============================================================================
